---- MODULE Spec2Model ----
(***************************************************************************)
(* Model of the AI Content Detector extension's background service worker  *)
(* (real_mvp_extension.js, section background.js): the model loader        *)
(* initializeModel, the message listener and handleAnalyzeText with its    *)
(* per-sentence classifier calls and the statistics write to               *)
(* chrome.storage.local.                                                   *)
(*                                                                         *)
(* One action is one run-to-completion segment of the JavaScript event     *)
(* loop: the code between two awaits.  Settling of a promise owned by the  *)
(* environment (CDN import, pipeline construction, classifier inference,   *)
(* chrome.storage) is an action with an outcome ok \in BOOLEAN; a promise  *)
(* that never settles is a behaviour in which that action is never taken.  *)
(* Strings are sequences of one-character strings.  Probabilities and      *)
(* scores are integers in thousandths.                                     *)
(***************************************************************************)
EXTENDS Integers, Sequences, FiniteSets, TLC

\* ------------------------------------------------------------------ bounds
MaxReq == 2

\* submitFeedback messages that arrive, after PreStored earlier ones were
\* handled one at a time; the backend is called from the tenth item on
MaxFeedback == 2
PreStored == 9

\* HTTP requests the backend handles
MaxCalls == 4

Requests == 1..MaxReq

\* ------------------------------------------------------- program constants
batchSize == 5
MinSentenceLen == 15
BaseProbability == 300
KeywordBonus == 100
FormalBonus == 80
LongBonus == 50
LongWords == 25
ScoreWeight == 200
HighThreshold == 700
MediumThreshold == 400
MinPageText == 50
FeedbackThreshold == 10

\* ------------------------------------------------------------------- texts
Terminators == {".", "!", "?"}
WhiteSpace == {" ", "\t", "\n", "\r"}
UpperCase == <<"A","B","C","D","E","F","G","H","I","J","K","L","M",
               "N","O","P","Q","R","S","T","U","V","W","X","Y","Z">>
LowerCase == <<"a","b","c","d","e","f","g","h","i","j","k","l","m",
               "n","o","p","q","r","s","t","u","v","w","x","y","z">>
Digits == {"0","1","2","3","4","5","6","7","8","9"}

Range(s) == {s[i] : i \in DOMAIN s}

IsWordChar(c) == c \in Range(UpperCase) \cup Range(LowerCase) \cup Digits \cup {"_"}

LowerChar(c) ==
  IF c \in Range(UpperCase)
  THEN LowerCase[CHOOSE i \in DOMAIN UpperCase : UpperCase[i] = c]
  ELSE c

toLowerCase(s) == [i \in DOMAIN s |-> LowerChar(s[i])]

\* String.prototype.includes
includes(s, w) ==
  \E p \in 1..(Len(s) - Len(w) + 1) : SubSeq(s, p, p + Len(w) - 1) = w

\* String.prototype.trim
trim(s) ==
  LET keep == {i \in DOMAIN s : s[i] \notin WhiteSpace}
  IN IF keep = {} THEN <<>>
     ELSE SubSeq(s, CHOOSE i \in keep : \A j \in keep : i <= j,
                    CHOOSE i \in keep : \A j \in keep : i >= j)

\* text.match(/[^.!?]+[.!?]+/g) || [] : from position p, the next match starts
\* at the first non-terminator, takes the longest run of non-terminators and
\* then the longest run of terminators; a run that reaches the end of the
\* text without a terminator matches nothing.
RECURSIVE RunEnd(_, _, _)
RunEnd(s, p, inTerm) ==
  IF p > Len(s) \/ ((s[p] \in Terminators) # inTerm) THEN p
  ELSE RunEnd(s, p + 1, inTerm)

RECURSIVE MatchFrom(_, _)
MatchFrom(s, p) ==
  LET b == RunEnd(s, p, TRUE)
      m == RunEnd(s, b, FALSE)
      e == RunEnd(s, m, TRUE)
  IN IF m > Len(s) THEN <<>>
     ELSE <<SubSeq(s, b, e - 1)>> \o MatchFrom(s, e)

SplitSentences(s) == MatchFrom(s, 1)

\* the text blocks the content script sends in the model
Texts == <<
  <<"R","o","b","u","s","t"," ","t","e","s","t","s"," ","p","a","s","s",".">>,
  <<"H","i","."," ","R","o","b","u","s","t"," ","t","e","s","t","s"," ","p","a","s","s","."," ",
    "T","h","u","s"," ","w","e"," ","l","e","v","e","r","a","g","e"," ","i","t","!">>,
  <<"N","o"," ","t","e","r","m","i","n","a","t","o","r"," ","h","e","r","e">>,
  <<"A","."," ","B","."," ","C","."," ","D","."," ",
    "R","o","b","u","s","t"," ","t","e","s","t","s"," ","p","a","s","s","."," ",
    "T","h","u","s"," ","w","e"," ","l","e","v","e","r","a","g","e"," ","i","t","!">>,
  <<"R","o","b","u","s","t"," ","t","e","s","t","s"," ","p","a","s","s","."," ",
    "T","h","u","s"," ","w","e"," ","l","e","v","e","r","a","g","e"," ","i","t","!"," ",
    "R","o","b","u","s","t"," ","t","e","s","t","s"," ","p","a","s","s","."," ",
    "T","h","u","s"," ","w","e"," ","l","e","v","e","r","a","g","e"," ","i","t","!"," ",
    "R","o","b","u","s","t"," ","t","e","s","t","s"," ","p","a","s","s","."," ",
    "T","h","u","s"," ","w","e"," ","l","e","v","e","r","a","g","e"," ","i","t","!"," ",
    "H","i",".">>
>>

TextIds == DOMAIN Texts

\* the last text fills a batch with five classifier calls and needs a second
\* batch; the other ones make at most two calls
LongTextId == Len(Texts)
BriefTextIds == TextIds \ {LongTextId}

\* sentences = text.match(...) || [], tabulated per text
SentenceTable == [t \in TextIds |-> SplitSentences(Texts[t])]

Sentences(t) == SentenceTable[t]

\* the strings handleAnalyzeText hands to the classifier for text t
Eligible(t) ==
  {trim(Sentences(t)[k]) : k \in {j \in DOMAIN Sentences(t) :
                                     Len(trim(Sentences(t)[j])) >= MinSentenceLen}}

ClassifierInputs == UNION {Eligible(t) : t \in TextIds}

\* ------------------------------------------------- calculateAIProbability
aiKeywords == {
  <<"a","r","t","i","f","i","c","i","a","l"," ","i","n","t","e","l","l","i","g","e","n","c","e">>,
  <<"m","a","c","h","i","n","e"," ","l","e","a","r","n","i","n","g">>,
  <<"f","u","r","t","h","e","r","m","o","r","e">>,
  <<"m","o","r","e","o","v","e","r">>,
  <<"d","e","l","v","e"," ","i","n","t","o">>,
  <<"l","e","v","e","r","a","g","e">>,
  <<"u","t","i","l","i","z","e">>,
  <<"o","p","t","i","m","i","z","e">>,
  <<"p","a","r","a","d","i","g","m">>,
  <<"c","o","m","p","r","e","h","e","n","s","i","v","e">>,
  <<"r","o","b","u","s","t">>,
  <<"s","e","a","m","l","e","s","s">> }

formalWords == {
  <<"t","h","u","s">>,
  <<"h","e","n","c","e">>,
  <<"t","h","e","r","e","f","o","r","e">>,
  <<"c","o","n","s","e","q","u","e","n","t","l","y">> }

\* /\b(thus|hence|therefore|consequently)\b/i.test(text)
formalPattern(s) ==
  \E w \in formalWords : \E p \in 1..(Len(s) - Len(w) + 1) :
     /\ SubSeq(toLowerCase(s), p, p + Len(w) - 1) = w
     /\ (p = 1 \/ ~IsWordChar(s[p - 1]))
     /\ (p + Len(w) - 1 = Len(s) \/ ~IsWordChar(s[p + Len(w)]))

\* text.split(' ').length
splitLength(s) == Cardinality({i \in DOMAIN s : s[i] = " "}) + 1

Min(a, b) == IF a < b THEN a ELSE b
Max(a, b) == IF a > b THEN a ELSE b

calculateAIProbability(text, modelScore) ==
  LET kw == Cardinality({w \in aiKeywords : includes(toLowerCase(text), w)})
      p == BaseProbability + KeywordBonus * kw
             + (IF formalPattern(text) THEN FormalBonus ELSE 0)
             + (IF splitLength(text) > LongWords THEN LongBonus ELSE 0)
             + (modelScore * ScoreWeight) \div 1000
  IN Min(Max(p, 0), 1000)

levelOf(probability) ==
  IF probability > HighThreshold THEN "high"
  ELSE IF probability > MediumThreshold THEN "medium" ELSE "low"

\* ---------------------------------------------------------------- classifier
\* what the loaded pipeline returns as output[0] for topk: 1
ModelOutputs == { [label |-> "POSITIVE", score |-> 990],
                  [label |-> "NEGATIVE", score |-> 600] }

\* the errors the environment's promises reject with
ImportError == "import failed"
PipelineError == "pipeline failed"
InferenceError == "inference failed"
StorageReadError == "storage read failed"
StorageWriteError == "storage write failed"

\* ------------------------------------------------------------------- state
VARIABLES
  classifier,           \* "null" or "pipeline"
  modelLoaded,          \* BOOLEAN
  modelLoadingPromise,  \* "null", "pending", "fulfilled", "rejected"
  loadPc,               \* the await at which the loader's async body stands
  loadError,            \* the error caught by the loader's catch, or "none"
  loads,                \* history: how often the loader's async body was started
  fired,                \* lifecycle events delivered to this service worker
  storage,              \* chrome.storage.local; <<>> is a key not set
  req,                  \* one record per analyzeText message
  modelOutput,          \* the loaded model: classifier input -> output[0]
  invocations,          \* history: classifier calls made for each request
  failed,               \* history: inputs whose classifier call rejected
  doneBefore,           \* history: requests answered before this one arrived
  settled,              \* history: the classifier calls of a request in the order
                        \* they settled, by sentence position (RecordedSettle)
  sample,               \* a probability and the level assigned to it
  build,                \* which background.js is installed
  server,               \* which backend listens on localhost:3000
  feedbackData,         \* chrome.storage.local's key feedbackData
  fb,                   \* one record per submitFeedback message
  posts,                \* history: the POST requests made to /api/feedback
  backendFeedback,      \* the backend's array `feedback`
  backendStats,         \* the backend's object `stats`
  api,                  \* history: the requests the backend has handled, and
                        \* the response to the last one
  popup,                \* popup.html: its status line, button and pending query
  content               \* the content script of the page

vars == <<classifier, modelLoaded, modelLoadingPromise, loadPc, loadError, loads, fired,
          storage, req, modelOutput, invocations, failed, doneBefore, settled,
          sample, build, server, feedbackData, fb, posts, backendFeedback,
          backendStats, api, popup, content>>

loaderVars == <<classifier, modelLoaded, modelLoadingPromise, loadPc, loadError,
               loads>>
historyVars == <<invocations, failed, doneBefore, settled>>
backgroundVars == <<loaderVars, fired, storage, req, modelOutput, historyVars>>
backendVars == <<server, backendFeedback, backendStats, api>>
feedbackVars == <<build, feedbackData, fb, posts, backendVars>>
uiVars == <<popup, content>>
extVars == <<sample, feedbackVars, uiVars>>

NoResponse == [kind |-> "none"]
Success(result) == [kind |-> "success", result |-> result]
Failure(error) == [kind |-> "failure", error |-> error]

\* the default of `const { analysisStats = {...} } = await get(...)`
NoStats == [total |-> 0, high |-> 0, medium |-> 0, low |-> 0]

IdleRequest ==
  [pc |-> "idle", text |-> 0, i |-> 0, calls |-> <<>>, results |-> <<>>,
   stats |-> NoStats, resp |-> NoResponse]

\* no probability has been computed
NoSample == [probability |-> 0, level |-> "none"]

\* the submitFeedback messages, numbered in the order of their arrival
Handlers == (PreStored + 1)..(PreStored + MaxFeedback)

\* real_mvp_extension.js holds one background.js, the setup script in
\* backend/server.js writes another
Builds == {"real", "setup"}

\* backend/server.js starts with one server, its setup script writes another
Servers == {"basic", "setup"}

FeedbackOk == [kind |-> "success"]

IdleFeedback ==
  [pc |-> "idle", feedback |-> <<>>, list |-> <<>>, fetch |-> "none",
   resp |-> NoResponse]

\* the backend has handled no request
NoCalls == [requests |-> 0, posts |-> 0, response |-> [route |-> "none"]]

\* no feedback was ever given and the backend has just started
FeedbackIdle ==
  /\ build = "real"
  /\ server = "basic"
  /\ feedbackData = <<>>
  /\ fb = [h \in Handlers |-> IdleFeedback]
  /\ posts = <<>>
  /\ backendFeedback = <<>>
  /\ backendStats = NoStats
  /\ api = NoCalls

\* popup.html as it is before it is opened
ClosedPopup ==
  [pc |-> "closed", inTab |-> FALSE, status |-> "Loading model...",
   detectBtn |-> "disabled", response |-> NoResponse, asked |-> NoResponse]

\* new AIDetectorContent() on a page whose extracted text is Texts[page], or
\* empty when page is 0
NewContent(page) ==
  [page |-> page, isActive |-> FALSE, highlights |-> <<>>, overlay |-> FALSE,
   notification |-> "none", sent |-> 0, handled |-> {}]

\* nothing but the analysis is running
ExtIdle ==
  /\ sample = NoSample
  /\ FeedbackIdle
  /\ popup = ClosedPopup
  /\ content = NewContent(0)

Init ==
  /\ ExtIdle
  /\ classifier = "null"
  /\ modelLoaded = FALSE
  /\ modelLoadingPromise = "null"
  /\ loadPc = "none"
  /\ loadError = "none"
  /\ loads = 0
  /\ fired = {}
  /\ storage = [modelLoaded |-> <<>>, analysisStats |-> <<>>]
  /\ req = [r \in Requests |-> IdleRequest]
  /\ modelOutput \in [ClassifierInputs -> ModelOutputs]
  /\ invocations = [r \in Requests |-> 0]
  /\ failed = [r \in Requests |-> {}]
  /\ doneBefore = [r \in Requests |-> {}]
  /\ settled = [r \in Requests |-> <<>>]

Answered(r) == req[r].resp.kind # "none"

\* handleAnalyzeText settles and the listener calls sendResponse; the call's
\* locals are gone
Return(rec, resp) ==
  [rec EXCEPT !.pc = "done", !.i = 0, !.calls = <<>>, !.results = <<>>,
              !.stats = NoStats, !.resp = resp]

\* ---------------------------------------------------------- initializeModel
\* an initializeModel without the `if (modelLoadingPromise)` check
initializeModelAnew ==
  /\ modelLoadingPromise' = "pending"
  /\ loadPc' = "import"
  /\ loads' = loads + 1

\* the synchronous part: reuse the promise or create it and run the async
\* body up to `await import(...)`
initializeModel ==
  IF modelLoadingPromise # "null"
  THEN UNCHANGED <<modelLoadingPromise, loadPc, loads>>
  ELSE /\ modelLoadingPromise' = "pending"
       /\ loadPc' = "import"
       /\ loads' = loads + 1

\* catch (error) { modelLoaded = false; await chrome.storage.local.set(...) }
LoadCatch(error) ==
  /\ modelLoaded' = FALSE
  /\ loadPc' = "catchStore"
  /\ loadError' = error
  /\ UNCHANGED modelLoadingPromise

OnInstalled ==
  /\ "installed" \notin fired
  /\ fired' = fired \cup {"installed"}
  /\ initializeModel
  /\ UNCHANGED <<extVars, classifier, modelLoaded, loadError, storage, req, modelOutput,
                 historyVars>>

OnStartup ==
  /\ "startup" \notin fired
  /\ fired' = fired \cup {"startup"}
  /\ initializeModel
  /\ UNCHANGED <<extVars, classifier, modelLoaded, loadError, storage, req, modelOutput,
                 historyVars>>

\* await import('https://cdn.jsdelivr.net/npm/@xenova/transformers@2.6.0')
ImportSettle(ok) ==
  /\ loadPc = "import"
  /\ IF ok
     THEN /\ loadPc' = "pipeline"
          /\ UNCHANGED <<modelLoaded, modelLoadingPromise, loadError>>
     ELSE LoadCatch(ImportError)
  /\ UNCHANGED <<extVars, classifier, fired, storage, req, modelOutput, historyVars,
                 loads>>

\* classifier = await pipeline(...); modelLoaded = true; storage.set(...)
PipelineSettle(ok) ==
  /\ loadPc = "pipeline"
  /\ IF ok
     THEN /\ classifier' = "pipeline"
          /\ modelLoaded' = TRUE
          /\ loadPc' = "storeStatus"
          /\ UNCHANGED <<modelLoadingPromise, loadError>>
     ELSE /\ LoadCatch(PipelineError)
          /\ UNCHANGED classifier
  /\ UNCHANGED <<extVars, fired, storage, req, modelOutput, historyVars,
                 loads>>

\* await chrome.storage.local.set({ modelLoaded: true, modelLoadTime })
\* settles; then the warm-up call classifier('This is a test sentence.')
StoreStatusSettle(ok) ==
  /\ loadPc = "storeStatus"
  /\ IF ok
     THEN /\ storage' = [storage EXCEPT !.modelLoaded = <<TRUE>>]
          /\ loadPc' = "warmup"
          /\ UNCHANGED <<modelLoaded, modelLoadingPromise, loadError>>
     ELSE /\ LoadCatch(StorageWriteError)
          /\ UNCHANGED storage
  /\ UNCHANGED <<extVars, classifier, fired, req, modelOutput, historyVars,
                 loads>>

\* await classifier('This is a test sentence.') settles
WarmupSettle(ok) ==
  /\ loadPc = "warmup"
  /\ IF ok
     THEN /\ loadPc' = "done"
          /\ modelLoadingPromise' = "fulfilled"
          /\ UNCHANGED <<modelLoaded, loadError>>
     ELSE LoadCatch(InferenceError)
  /\ UNCHANGED <<extVars, classifier, fired, storage, req, modelOutput, historyVars,
                 loads>>

\* await chrome.storage.local.set({ modelLoaded: false }); throw error
\* (a rejected set throws its own error out of the catch block instead)
CatchStoreSettle(ok) ==
  /\ loadPc = "catchStore"
  /\ loadPc' = "done"
  /\ modelLoadingPromise' = "rejected"
  /\ IF ok
     THEN /\ storage' = [storage EXCEPT !.modelLoaded = <<FALSE>>]
          /\ UNCHANGED loadError
     ELSE /\ loadError' = StorageWriteError
          /\ UNCHANGED storage
  /\ UNCHANGED <<extVars, classifier, modelLoaded, fired, req, modelOutput, historyVars,
                 loads>>

\* -------------------------------------------------------- handleAnalyzeText
\* a slice one sentence longer than the batch size
BatchOneMore(t, i) ==
  SubSeq(Sentences(t), i + 1, Min(i + batchSize + 1, Len(Sentences(t))))

\* batch = sentences.slice(i, i + batchSize), i counted from 0
Batch(t, i) == SubSeq(Sentences(t), i + 1, Min(i + batchSize, Len(Sentences(t))))

BatchStarts(t) == {i \in 0..Len(Sentences(t)) : i % batchSize = 0}

\* batch.map(async (sentence) => ...) up to its first await: a sentence whose
\* trimmed length is below 15 yields null at once, any other one calls the
\* classifier (tabulated per text and batch)
BatchCallsTable ==
  [t \in TextIds |-> [i \in BatchStarts(t) |->
     [k \in DOMAIN Batch(t, i) |->
        IF Len(trim(Batch(t, i)[k])) < MinSentenceLen THEN "skip" ELSE "pending"]]]

BatchCalls(t, i) == BatchCallsTable[t][i]

Pending(calls) == {k \in DOMAIN calls : calls[k] = "pending"}

\* the object returned for a sentence whose classifier call resolved with
\* output[0] = output (tabulated per classifier input)
ResultTable ==
  [trimmed \in ClassifierInputs |-> [output \in ModelOutputs |->
     LET probability == calculateAIProbability(trimmed, output.score)
     IN [text |-> trimmed, probability |-> probability,
         level |-> levelOf(probability),
         modelScore |-> output.score, modelLabel |-> output.label]]]

ResultFor(sentence) == ResultTable[trim(sentence)][modelOutput[trim(sentence)]]

\* the batch's results with the last sentence first
BatchResultsReversed(batch, calls, k) ==
  LET n == Len(batch)
      IsOk(p) == p >= k /\ calls[p] = "ok"
      kept == SelectSeq([j \in 1..n |-> n + 1 - j], IsOk)
  IN [j \in 1..Len(kept) |-> ResultFor(batch[kept[j]])]

\* batchResults.filter(r => r !== null), in batch order
RECURSIVE BatchResults(_, _, _)
BatchResults(batch, calls, k) ==
  IF k > Len(batch) THEN <<>>
  ELSE (IF calls[k] = "ok" THEN <<ResultFor(batch[k])>> ELSE <<>>)
         \o BatchResults(batch, calls, k + 1)

\* from `if (!classifier)` to the first await of the batch loop
AfterModelCheck(rec) ==
  IF classifier = "null"
  THEN Return(rec, Failure("Model not available"))
  ELSE IF Len(Sentences(rec.text)) = 0
  THEN Return(rec, Success(<<>>))
  ELSE [rec EXCEPT !.pc = "batch", !.i = 0, !.calls = BatchCalls(rec.text, 0)]

\* the listener receives { action: 'analyzeText', text } and runs
\* handleAnalyzeText up to its first await
AnalyzeText(r, t, hasTab) ==
  /\ req[r].pc = "idle"
  /\ \A q \in Requests : q < r => req[q].pc # "idle"
  /\ doneBefore' = [doneBefore EXCEPT ![r] = {q \in Requests : Answered(q)}]
  /\ IF ~hasTab
     THEN /\ req' = [req EXCEPT ![r] = Return([@ EXCEPT !.text = t],
                                                Failure("Invalid sender"))]
          /\ UNCHANGED <<modelLoadingPromise, loadPc, loads, invocations>>
     ELSE IF ~modelLoaded
     THEN /\ initializeModel
          /\ req' = [req EXCEPT ![r] = [@ EXCEPT !.pc = "awaitModel", !.text = t]]
          /\ UNCHANGED invocations
     ELSE LET rec == AfterModelCheck([req[r] EXCEPT !.text = t])
          IN /\ req' = [req EXCEPT ![r] = rec]
             /\ invocations' = [invocations EXCEPT
                                  ![r] = Cardinality(Pending(rec.calls))]
             /\ UNCHANGED <<modelLoadingPromise, loadPc, loads>>
  /\ UNCHANGED <<extVars, classifier, modelLoaded, loadError, fired, storage, modelOutput,
                 failed, settled>>

\* `await initializeModel()` resumes: the rejection propagates to the
\* listener's catch, the fulfilment continues with the classifier check
ModelAwaited(r) ==
  /\ req[r].pc = "awaitModel"
  /\ modelLoadingPromise \in {"fulfilled", "rejected"}
  /\ IF modelLoadingPromise = "rejected"
     THEN /\ req' = [req EXCEPT ![r] = Return(req[r], Failure(loadError))]
          /\ UNCHANGED invocations
     ELSE LET rec == AfterModelCheck(req[r])
          IN /\ req' = [req EXCEPT ![r] = rec]
             /\ invocations' = [invocations EXCEPT
                                  ![r] = Cardinality(Pending(rec.calls))]
  /\ UNCHANGED <<extVars, loaderVars, fired, storage, modelOutput, failed, doneBefore,
                 settled>>

\* `await classifier(trimmed, { topk: 1 })` of sentence k of the current batch
\* settles; the try/catch turns a rejection into null
SettleCall(r, k, ok) ==
  /\ req[r].pc = "batch"
  /\ k \in Pending(req[r].calls)
  /\ req' = [req EXCEPT ![r].calls[k] = IF ok THEN "ok" ELSE "fail"]
  /\ failed' = [failed EXCEPT ![r] =
                  IF ok THEN @ ELSE @ \cup {trim(Batch(req[r].text, req[r].i)[k])}]
  /\ UNCHANGED <<extVars, loaderVars, fired, storage, modelOutput, invocations,
                 doneBefore>>

ClassifierSettle(r, k, ok) == SettleCall(r, k, ok) /\ UNCHANGED settled

\* the same step, with the order of settling recorded
RecordedSettle(r, k, ok) ==
  /\ SettleCall(r, k, ok)
  /\ settled' = [settled EXCEPT ![r] = Append(@, [pos |-> req[r].i + k, ok |-> ok])]

\* Promise.all resolved: push the batch's results, report progress (errors
\* ignored), then start the next batch or call updateAnalysisStats
BatchDone(r) ==
  LET rec == req[r]
      results == rec.results \o BatchResults(Batch(rec.text, rec.i), rec.calls, 1)
      next == rec.i + batchSize
  IN /\ rec.pc = "batch"
     /\ Pending(rec.calls) = {}
     /\ IF next < Len(Sentences(rec.text))
        THEN /\ req' = [req EXCEPT ![r] = [rec EXCEPT !.results = results,
                                              !.i = next,
                                              !.calls = BatchCalls(rec.text, next)]]
             /\ invocations' = [invocations EXCEPT ![r] =
                                  @ + Cardinality(Pending(BatchCalls(rec.text, next)))]
        ELSE /\ req' = [req EXCEPT ![r] = [rec EXCEPT !.results = results,
                                              !.i = 0, !.calls = <<>>,
                                              !.pc = "statsGet"]]
             /\ UNCHANGED invocations
     /\ UNCHANGED <<extVars, loaderVars, fired, storage, modelOutput, failed, doneBefore,
                    settled>>

\* ------------------------------------------------------ updateAnalysisStats
CountLevel(results, level) ==
  Cardinality({k \in DOMAIN results : results[k].level = level})

\* results.forEach(r => { analysisStats.total++; analysisStats[r.level]++ })
AddStats(stats, results) ==
  [total |-> stats.total + Len(results),
   high |-> stats.high + CountLevel(results, "high"),
   medium |-> stats.medium + CountLevel(results, "medium"),
   low |-> stats.low + CountLevel(results, "low")]

\* await chrome.storage.local.get('analysisStats') settles
StatsGet(r, ok) ==
  /\ req[r].pc = "statsGet"
  /\ IF ok
     THEN req' = [req EXCEPT ![r] = [@ EXCEPT !.pc = "statsSet",
                     !.stats = AddStats(IF storage.analysisStats = <<>>
                                        THEN NoStats
                                        ELSE storage.analysisStats[1],
                                        req[r].results)]]
     ELSE req' = [req EXCEPT ![r] = Return(req[r], Failure(StorageReadError))]
  /\ UNCHANGED <<extVars, loaderVars, fired, storage, modelOutput, historyVars>>

\* await chrome.storage.local.set({ analysisStats }) settles; then
\* handleAnalyzeText returns results and the listener answers
StatsSet(r, ok) ==
  /\ req[r].pc = "statsSet"
  /\ IF ok
     THEN /\ storage' = [storage EXCEPT !.analysisStats = <<req[r].stats>>]
          /\ req' = [req EXCEPT ![r] = Return(req[r], Success(req[r].results))]
     ELSE /\ req' = [req EXCEPT ![r] = Return(req[r], Failure(StorageWriteError))]
          /\ UNCHANGED storage
  /\ UNCHANGED <<extVars, loaderVars, fired, modelOutput, historyVars>>

\* ----------------------------------------------------------- specification
\* steps of the service worker's own code: continuations that run once the
\* promise they wait for has settled
WorkerStep ==
  \/ \E r \in Requests : ModelAwaited(r)
  \/ \E r \in Requests : BatchDone(r)

\* chrome.storage.local settling a get or a set
StorageStep ==
  \/ \E ok \in BOOLEAN : StoreStatusSettle(ok)
  \/ \E ok \in BOOLEAN : CatchStoreSettle(ok)
  \/ \E r \in Requests, ok \in BOOLEAN : StatsGet(r, ok)
  \/ \E r \in Requests, ok \in BOOLEAN : StatsSet(r, ok)

Next ==
  \/ OnInstalled
  \/ OnStartup
  \/ \E ok \in BOOLEAN : ImportSettle(ok)
  \/ \E ok \in BOOLEAN : PipelineSettle(ok)
  \/ \E ok \in BOOLEAN : WarmupSettle(ok)
  \/ \E r \in Requests, t \in BriefTextIds, hasTab \in BOOLEAN :
        AnalyzeText(r, t, hasTab)
  \/ \E r \in Requests, k \in 1..batchSize, ok \in BOOLEAN : ClassifierSettle(r, k, ok)
  \/ WorkerStep
  \/ StorageStep

Spec == Init /\ [][Next]_vars

\* The event loop runs every continuation whose promise has settled and the
\* browser's storage settles every call; nothing makes the CDN import, the
\* pipeline construction or an inference settle.
FairSpec == Spec /\ WF_vars(WorkerStep) /\ WF_vars(StorageStep)

\* ------------------------------------------ one request, model already loaded
\* the state onInstalled leaves when every step of the load succeeded
ModelReady ==
  /\ classifier = "pipeline"
  /\ modelLoaded = TRUE
  /\ modelLoadingPromise = "fulfilled"
  /\ loadPc = "done"
  /\ loadError = "none"
  /\ loads = 1
  /\ fired = {"installed"}
  /\ storage = [modelLoaded |-> <<TRUE>>, analysisStats |-> <<>>]

\* no analyzeText message has arrived
NoRequests ==
  /\ req = [r \in Requests |-> IdleRequest]
  /\ invocations = [r \in Requests |-> 0]
  /\ failed = [r \in Requests |-> {}]
  /\ doneBefore = [r \in Requests |-> {}]
  /\ settled = [r \in Requests |-> <<>>]

\* a loaded model, for the parts of the program that make no inference
SomeModel == CHOOSE f \in [ClassifierInputs -> ModelOutputs] : TRUE

BatchInit ==
  /\ ExtIdle
  /\ ModelReady
  /\ NoRequests
  /\ modelOutput \in [ClassifierInputs -> ModelOutputs]

\* a content script sends one analyzeText message, of any length
FirstAnalyzeText ==
  /\ \A q \in Requests : req[q].pc = "idle"
  /\ \E r \in Requests, t \in TextIds : AnalyzeText(r, t, TRUE)

BatchNext ==
  \/ FirstAnalyzeText
  \/ \E r \in Requests, k \in 1..batchSize, ok \in BOOLEAN : RecordedSettle(r, k, ok)
  \/ \E r \in Requests : BatchDone(r)
  \/ \E r \in Requests, ok \in BOOLEAN : StatsGet(r, ok)
  \/ \E r \in Requests, ok \in BOOLEAN : StatsSet(r, ok)

BatchSpec == BatchInit /\ [][BatchNext]_vars

\* ------------------------------------------------- the level of a probability
\* Math.max(0, Math.min(1, probability)) leaves a value between 0 and 1,
\* counted here in thousandths
Probabilities == 0..1000

LevelInit ==
  /\ sample \in {[probability |-> p, level |-> "none"] : p \in Probabilities}
  /\ FeedbackIdle
  /\ popup = ClosedPopup
  /\ content = NewContent(0)
  /\ ModelReady
  /\ NoRequests
  /\ modelOutput = SomeModel

\* level: probability > 0.7 ? 'high' : probability > 0.4 ? 'medium' : 'low'
AssignLevel ==
  /\ sample.level = "none"
  /\ sample' = [sample EXCEPT !.level = levelOf(sample.probability)]
  /\ UNCHANGED <<backgroundVars, feedbackVars, uiVars>>

LevelNext == AssignLevel

LevelSpec == LevelInit /\ [][LevelNext]_vars

\* ------------------------------------------------------------------ feedback
\* window.location.href of the page, and a message that carries no url
PageUrl ==
  <<"h","t","t","p","s",":","/","/","N","e","w","s",".","i","o","/","u","?","i","d","=","7">>

Urls == {PageUrl, <<>>}

unknown == <<"u","n","k","n","o","w","n">>

\* the index of the "://" that ends the scheme, 0 when there is none
SchemeEnd(url) ==
  LET at == {p \in 2..(Len(url) - 2) : SubSeq(url, p, p + 2) = <<":","/","/">>}
  IN IF at = {} THEN 0 ELSE CHOOSE p \in at : \A q \in at : p <= q

\* new URL(url).hostname: the authority up to the port, path, query or
\* fragment, in lower case
hostname(url) ==
  LET from == SchemeEnd(url) + 3
      stops == {p \in from..Len(url) : url[p] \in {":", "/", "?", "#"}}
      to == IF stops = {} THEN Len(url)
            ELSE (CHOOSE p \in stops : \A q \in stops : p <= q) - 1
  IN toLowerCase(SubSeq(url, from, to))

\* try { return new URL(url).hostname } catch { return 'unknown' }
anonymizeURL(url) == IF SchemeEnd(url) = 0 THEN unknown ELSE hostname(url)

\* the highlight the feedback widget belongs to
Highlight ==
  LET trimmed == CHOOSE c \in ClassifierInputs : TRUE
  IN ResultTable[trimmed][SomeModel[trimmed]]

\* the feedback object of content.js's submitFeedback
Feedback(feedbackType, url) ==
  [text |-> Highlight.text, probability |-> Highlight.probability,
   level |-> Highlight.level, feedbackType |-> feedbackType, url |-> url]

\* { ...feedback, timestamp: Date.now() }, the time counted in messages
Stamped(feedback, time) ==
  [text |-> feedback.text, probability |-> feedback.probability,
   level |-> feedback.level, feedbackType |-> feedback.feedbackType,
   url |-> feedback.url, timestamp |-> time]

\* feedbackArray.map(f => ({ ..., url: anonymizeURL(f.url), ... }))
Anonymized(feedbackArray) ==
  [k \in DOMAIN feedbackArray |->
     [feedbackArray[k] EXCEPT !.url = anonymizeURL(feedbackArray[k].url)]]

\* the `feedback` of the POST body: sendFeedbackToBackend maps the items, the
\* setup script's handleFeedback sends feedbackData as it is
Body(feedbackArray) ==
  IF build = "real" THEN Anonymized(feedbackArray) ELSE feedbackArray

\* the messages a run is made of: the user agrees on the page, or a sender
\* that gives no url disagrees
FeedbackMessages == {Feedback("agree", PageUrl), Feedback("disagree", <<>>)}

\* feedbackData after PreStored messages
StoredAtStart(feedback) == [n \in 1..PreStored |-> Stamped(feedback, n)]

FeedbackInit ==
  /\ sample = NoSample
  /\ popup = ClosedPopup
  /\ content = NewContent(0)
  /\ ModelReady
  /\ NoRequests
  /\ modelOutput = SomeModel
  /\ build \in Builds
  /\ server \in Servers
  /\ \E feedback \in FeedbackMessages :
        /\ feedbackData = StoredAtStart(feedback)
        /\ fb = [h \in Handlers |-> [IdleFeedback EXCEPT !.feedback = <<feedback>>]]
  /\ posts = <<>>
  /\ backendFeedback = <<>>
  /\ backendStats = NoStats
  /\ api = NoCalls

\* handleFeedback settles and the listener's then or catch answers
Finish(rec, resp) ==
  [rec EXCEPT !.pc = "done", !.feedback = <<>>, !.list = <<>>, !.resp = resp]

\* handleFeedback rejects: the listener of real_mvp_extension.js answers in
\* its catch, the setup script's listener has no catch and never answers
Throw(rec, error) ==
  Finish(rec, IF build = "real" THEN Failure(error) ELSE NoResponse)

\* the listener receives { action: 'submitFeedback', feedback }, the message
\* held for handler h, and runs handleFeedback up to
\* `await chrome.storage.local.get('feedbackData')`
SubmitFeedback(h, hasTab) ==
  /\ fb[h].pc = "idle"
  /\ \A g \in Handlers : g < h => fb[g].pc # "idle"
  /\ fb' = [fb EXCEPT ![h] =
              IF build = "real" /\ ~hasTab
              THEN Finish(@, Failure("Invalid sender"))
              ELSE [@ EXCEPT !.pc = "get"]]
  /\ UNCHANGED <<sample, uiVars, backgroundVars, build, feedbackData, posts, backendVars>>

\* the get settles; feedbackData.push(...); storage.set({ feedbackData }) starts
FeedbackGet(h, ok) ==
  /\ fb[h].pc = "get"
  /\ fb' = [fb EXCEPT ![h] =
              IF ok
              THEN [@ EXCEPT !.pc = "set",
                             !.list = Append(feedbackData, Stamped(fb[h].feedback[1], h))]
              ELSE Throw(@, StorageReadError)]
  /\ UNCHANGED <<sample, uiVars, backgroundVars, build, feedbackData, posts, backendVars>>

\* the set settles; with 10 items or more the POST is made
FeedbackSet(h, ok) ==
  /\ fb[h].pc = "set"
  /\ IF ~ok
     THEN /\ fb' = [fb EXCEPT ![h] = Throw(@, StorageWriteError)]
          /\ UNCHANGED <<feedbackData, posts>>
     ELSE /\ feedbackData' = fb[h].list
          /\ IF Len(fb[h].list) >= FeedbackThreshold
             THEN /\ fb' = [fb EXCEPT ![h].pc = "fetch"]
                  /\ posts' = Append(posts, [by |-> h, feedback |-> Body(fb[h].list),
                                              stored |-> Len(fb[h].list),
                                              delivered |-> FALSE])
             ELSE /\ fb' = [fb EXCEPT ![h] = Finish(@, FeedbackOk)]
                  /\ UNCHANGED posts
  /\ UNCHANGED <<sample, uiVars, backgroundVars, build, backendVars>>

\* the backend has answered one more request with res.json(json)
Handled(route, json) ==
  [requests |-> api.requests + 1,
   posts |-> api.posts + (IF route = "POST /api/feedback" THEN 1 ELSE 0),
   response |-> [route |-> route, json |-> json]]

\* a server that keeps the newest record only
ReceiveNewestOnly(data) ==
  /\ backendFeedback' = <<[text_hash |-> "", length |-> 0,
                           model_version |-> "v0", score |-> 0,
                           feedback |-> data]>>
  /\ api' = Handled("POST /api/feedback",
                    [status |-> "received", count |-> Len(backendFeedback')])
  /\ UNCHANGED backendStats

\* app.post('/api/feedback', ...) of the running server: the first one pushes
\* one record built from the top-level fields of the body, the setup script's
\* one pushes every item and counts its level
Receive(data) ==
  IF server = "basic"
  THEN /\ backendFeedback' = Append(backendFeedback,
                                    [text_hash |-> "", length |-> 0,
                                     model_version |-> "v0", score |-> 0,
                                     feedback |-> data])
       /\ api' = Handled("POST /api/feedback",
                         [status |-> "received", count |-> Len(backendFeedback')])
       /\ UNCHANGED backendStats
  ELSE /\ backendFeedback' = backendFeedback \o data
       /\ backendStats' = AddStats(backendStats, data)
       /\ api' = Handled("POST /api/feedback",
                         [success |-> TRUE, count |-> Len(data)])

\* the ways `await fetch(...)` settles: a 2xx response of the route, an error
\* status sent before the route ran, a rejection (backend unreachable)
FetchOutcomes == {"ok", "status", "reject"}

\* a handler that rethrows what its fetch ran into
AfterFetchRethrown(rec, outcome) ==
  IF outcome = "ok"
  THEN [rec EXCEPT !.pc = "clear", !.fetch = outcome]
  ELSE Finish([rec EXCEPT !.fetch = outcome], Failure("Failed to fetch"))

\* after the fetch: sendFeedbackToBackend only logs an error status or a
\* rejection and handleFeedback goes on to clear the list; the setup script's
\* handleFeedback ignores the status and skips the clearing on a rejection
AfterFetch(rec, outcome) ==
  IF build = "setup" /\ outcome = "reject"
  THEN Finish([rec EXCEPT !.fetch = outcome], FeedbackOk)
  ELSE [rec EXCEPT !.pc = "clear", !.fetch = outcome]

\* the POST made by handler h
PostOf(h) == CHOOSE j \in DOMAIN posts : posts[j].by = h

\* await fetch('http://localhost:3000/api/feedback', ...) settles
FetchSettle(h, outcome) ==
  /\ fb[h].pc = "fetch"
  /\ posts' = [posts EXCEPT ![PostOf(h)].delivered = (outcome = "ok")]
  /\ IF outcome = "ok"
     THEN Receive(posts[PostOf(h)].feedback)
     ELSE UNCHANGED <<backendFeedback, backendStats, api>>
  /\ fb' = [fb EXCEPT ![h] = AfterFetch(@, outcome)]
  /\ UNCHANGED <<sample, uiVars, backgroundVars, build, server, feedbackData>>

\* await chrome.storage.local.set({ feedbackData: [] }) settles; its
\* rejection leaves handleFeedback of real_mvp_extension.js through the catch
\* that rethrows, the setup script's through the catch that warns
FeedbackClear(h, ok) ==
  /\ fb[h].pc = "clear"
  /\ IF ok
     THEN /\ feedbackData' = <<>>
          /\ fb' = [fb EXCEPT ![h] = Finish(@, FeedbackOk)]
     ELSE /\ fb' = [fb EXCEPT ![h] =
                      IF build = "real" THEN Throw(@, StorageWriteError)
                      ELSE Finish(@, FeedbackOk)]
          /\ UNCHANGED feedbackData
  /\ UNCHANGED <<sample, uiVars, backgroundVars, build, posts, backendVars>>

FeedbackNext ==
  \/ \E h \in Handlers, hasTab \in BOOLEAN : SubmitFeedback(h, hasTab)
  \/ \E h \in Handlers, ok \in BOOLEAN : FeedbackGet(h, ok)
  \/ \E h \in Handlers, ok \in BOOLEAN : FeedbackSet(h, ok)
  \/ \E h \in Handlers, outcome \in FetchOutcomes : FetchSettle(h, outcome)
  \/ \E h \in Handlers, ok \in BOOLEAN : FeedbackClear(h, ok)

FeedbackSpec == FeedbackInit /\ [][FeedbackNext]_vars

\* --------------------------------------- the loader and its callers, one text
\* a fresh service worker and one behaviour of the model
LoaderInit ==
  /\ Init
  /\ modelOutput = SomeModel

\* the text every tab sends: one sentence, one call of the classifier
LoaderText == 1

LoaderNext ==
  \/ OnInstalled
  \/ OnStartup
  \/ \E ok \in BOOLEAN : ImportSettle(ok)
  \/ \E ok \in BOOLEAN : PipelineSettle(ok)
  \/ \E ok \in BOOLEAN : WarmupSettle(ok)
  \/ \E r \in Requests, hasTab \in BOOLEAN : AnalyzeText(r, LoaderText, hasTab)
  \/ \E r \in Requests, ok \in BOOLEAN : ClassifierSettle(r, 1, ok)
  \/ WorkerStep
  \/ StorageStep

LoaderSpec == LoaderInit /\ [][LoaderNext]_vars

\* ------------------------------------------------------------------- backend
\* the server of backend/server.js has just started; no extension is looked at
BackendInit ==
  /\ Init
  /\ modelOutput = SomeModel

\* the `feedback` arrays of the bodies sent to POST /api/feedback: a batch of
\* the extension, and an empty one
PostBodies ==
  {<<>>} \cup {Anonymized([n \in 1..FeedbackThreshold |-> Stamped(feedback, n)]) :
                feedback \in FeedbackMessages}

\* POST /api/feedback with body { feedback: data }
PostFeedback(data) ==
  /\ api.requests < MaxCalls
  /\ Receive(data)
  /\ UNCHANGED <<backgroundVars, sample, uiVars, build, feedbackData, fb, posts,
                 server>>

\* GET /api/feedback: res.json({ count: feedback.length, feedback })
GetFeedback ==
  /\ api.requests < MaxCalls
  /\ api' = Handled("GET /api/feedback",
                    [count |-> Len(backendFeedback), feedback |-> backendFeedback])
  /\ UNCHANGED <<backgroundVars, sample, uiVars, build, feedbackData, fb, posts,
                 server, backendFeedback, backendStats>>

\* GET /api/health: res.json({ ok: true })
GetHealth ==
  /\ api.requests < MaxCalls
  /\ api' = Handled("GET /api/health", [ok |-> TRUE])
  /\ UNCHANGED <<backgroundVars, sample, uiVars, build, feedbackData, fb, posts,
                 server, backendFeedback, backendStats>>

BackendNext ==
  \/ \E data \in PostBodies : PostFeedback(data)
  \/ GetFeedback
  \/ GetHealth

BackendSpec == BackendInit /\ [][BackendNext]_vars

\* --------------------------------------------------------------------- popup
PopupInit ==
  /\ Init
  /\ modelOutput = SomeModel

\* popup.html is opened from the toolbar, where the sender of its messages
\* has no tab, or as a page in a tab; DOMContentLoaded runs checkModelStatus
\* up to `await chrome.runtime.sendMessage({ action: 'getModelStatus' })`
OpenPopup(inTab) ==
  /\ popup.pc = "closed"
  /\ popup' = [popup EXCEPT !.pc = "asking", !.inTab = inTab]
  /\ UNCHANGED <<backgroundVars, sample, feedbackVars, content>>

\* the answer of the listener to { action: 'getModelStatus' }
StatusResponse(hasTab) ==
  IF ~hasTab
  THEN [success |-> FALSE, error |-> "Invalid sender"]
  ELSE [success |-> TRUE, loaded |-> modelLoaded,
        loading |-> (modelLoadingPromise # "null" /\ ~modelLoaded)]

\* the service worker's listener receives the popup's getModelStatus
GetModelStatus ==
  /\ popup.pc = "asking"
  /\ popup' = [popup EXCEPT !.pc = "answered",
                            !.response = StatusResponse(popup.inTab),
                            !.asked = [loaded |-> modelLoaded,
                                       promise |-> modelLoadingPromise]]
  /\ UNCHANGED <<backgroundVars, sample, feedbackVars, content>>

\* checkModelStatus resumes with the response
StatusShown(pop) ==
  LET response == pop.response
  IN IF ~response.success THEN [pop EXCEPT !.pc = "settled"]
     ELSE IF response.loaded
     THEN [pop EXCEPT !.pc = "settled", !.status = "Model ready",
                      !.detectBtn = "enabled"]
     ELSE IF response.loading
     THEN [pop EXCEPT !.pc = "timer", !.status = "Loading model..."]
     ELSE [pop EXCEPT !.pc = "settled", !.status = "Model failed to load"]

CheckModelStatus ==
  /\ popup.pc = "answered"
  /\ popup' = StatusShown(popup)
  /\ UNCHANGED <<backgroundVars, sample, feedbackVars, content>>

\* sendMessage rejects: the catch of checkModelStatus
ConnectionError ==
  /\ popup.pc = "asking"
  /\ popup' = [popup EXCEPT !.pc = "settled", !.status = "Connection error"]
  /\ UNCHANGED <<backgroundVars, sample, feedbackVars, content>>

\* setTimeout(checkModelStatus, 2000) fires
PollTimer ==
  /\ popup.pc = "timer"
  /\ popup' = [popup EXCEPT !.pc = "asking"]
  /\ UNCHANGED <<backgroundVars, sample, feedbackVars, content>>

PopupNext ==
  \/ OnInstalled
  \/ OnStartup
  \/ \E ok \in BOOLEAN : ImportSettle(ok)
  \/ \E ok \in BOOLEAN : PipelineSettle(ok)
  \/ \E ok \in BOOLEAN : StoreStatusSettle(ok)
  \/ \E ok \in BOOLEAN : WarmupSettle(ok)
  \/ \E ok \in BOOLEAN : CatchStoreSettle(ok)
  \/ \E inTab \in BOOLEAN : OpenPopup(inTab)
  \/ GetModelStatus
  \/ CheckModelStatus
  \/ ConnectionError
  \/ PollTimer

PopupSpec == PopupInit /\ [][PopupNext]_vars

\* ------------------------------------------------------------ content script
\* the pages: one for each text that needs few classifier calls, and one
\* whose extracted text is empty
PageTexts == BriefTextIds \cup {0}

\* pageText.length
PageLength(page) == IF page = 0 THEN 0 ELSE Len(Texts[page])

\* a check that lets every text but the empty one through
NotEmpty(page) == PageLength(page) > 0

\* the negation of `!pageText || pageText.length < 50`
EnoughText(page) == PageLength(page) >= MinPageText

ContentInit ==
  /\ sample = NoSample
  /\ FeedbackIdle
  /\ popup = ClosedPopup
  /\ content \in {NewContent(page) : page \in PageTexts}
  /\ ModelReady
  /\ NoRequests
  /\ modelOutput = SomeModel

\* the analyzeText messages that have reached the service worker
Arrived == {r \in Requests : req[r].pc # "idle"}

\* the content script's listener receives { action: 'startDetection' }:
\* startDetection runs up to its return or to `await sendMessage(...)`; with
\* isActive set it returns at once
StartDetection ==
  /\ ~content.isActive
  /\ IF ~EnoughText(content.page)
     THEN content' = [content EXCEPT !.overlay = FALSE,
                        !.notification = "Not enough text to analyze"]
     ELSE /\ content.sent < MaxReq
          /\ content' = [content EXCEPT !.overlay = TRUE, !.sent = @ + 1]
  /\ UNCHANGED <<backgroundVars, sample, feedbackVars, popup>>

\* the service worker's listener receives the content script's analyzeText
ReceiveAnalyzeText ==
  /\ Cardinality(Arrived) < content.sent
  /\ \E r \in Requests : AnalyzeText(r, content.page, TRUE)

\* startDetection resumes with the response to its analyzeText
DetectionAnswered(r) ==
  /\ Answered(r)
  /\ r \notin content.handled
  /\ content' =
       IF req[r].resp.kind = "success"
       THEN [content EXCEPT !.overlay = FALSE, !.handled = @ \cup {r},
                            !.highlights = req[r].resp.result,
                            !.isActive = TRUE,
                            !.notification = "Found segments to analyze"]
       ELSE [content EXCEPT !.overlay = FALSE, !.handled = @ \cup {r},
                            !.notification = "Analysis failed"]
  /\ UNCHANGED <<backgroundVars, sample, feedbackVars, popup>>

\* the listener receives { action: 'stopDetection' }
StopDetection ==
  /\ content' = [content EXCEPT !.highlights = <<>>, !.isActive = FALSE,
                                !.notification = "Detection cleared"]
  /\ UNCHANGED <<backgroundVars, sample, feedbackVars, popup>>

ContentNext ==
  \/ StartDetection
  \/ ReceiveAnalyzeText
  \/ \E r \in Requests : DetectionAnswered(r)
  \/ StopDetection
  \/ \E r \in Requests, k \in 1..batchSize, ok \in BOOLEAN : ClassifierSettle(r, k, ok)
  \/ \E r \in Requests : BatchDone(r)
  \/ \E r \in Requests, ok \in BOOLEAN : StatsGet(r, ok)
  \/ \E r \in Requests, ok \in BOOLEAN : StatsSet(r, ok)

ContentSpec == ContentInit /\ [][ContentNext]_vars

\* ------------------------------------------------------------------ claims
Issued(r) == req[r].pc # "idle"

Succeeded(r) == req[r].resp.kind = "success"

\* r2 arrived after r1 was answered, with the same text, and both succeeded
ScannedTwice(r1, r2) ==
  /\ r1 \in doneBefore[r2]
  /\ req[r1].text = req[r2].text
  /\ Succeeded(r1)
  /\ Succeeded(r2)

\* C1: when a text is scanned a second time after its first scan was
\* answered, the second scan makes no classifier call and returns the same
\* list as the first.
CacheHitIdempotence ==
  \A r1, r2 \in Requests :
     ScannedTwice(r1, r2) =>
        /\ invocations[r2] = 0
        /\ req[r2].resp.result = req[r1].resp.result

\* the requests that have a classifier call outstanding for text t
InFlight(t) ==
  {r \in Requests : req[r].text = t /\ req[r].pc = "batch"
                      /\ Pending(req[r].calls) # {}}

\* C3: at no time do two requests have classifier calls in flight for the
\* same text.
DedupUnderConcurrency == \A t \in TextIds : Cardinality(InFlight(t)) <= 1

\* C6: when the model load has raised no error, so that a failing write to
\* chrome.storage.local is the only thing that can have gone wrong after the
\* inferences, no analyzeText request is answered with the failure of that
\* write.
FailureIsolation ==
  \A r \in Requests :
     loadError = "none" => req[r].resp # Failure(StorageWriteError)

\* C7: a request one of whose classifier calls failed is answered with a
\* failure.
EngineFailureReachesCaller ==
  \A r \in Requests :
     (Answered(r) /\ failed[r] # {}) => req[r].resp.kind = "failure"

\* the classifier inputs that have an entry in a result list
Covered(result) == {result[k].text : k \in DOMAIN result}

\* C8: a request answered with success carries an entry for every sentence
\* that was handed to the classifier; none is missing.
NoSilentPartialResult ==
  \A r \in Requests :
     Succeeded(r) => Covered(req[r].resp.result) = Eligible(req[r].text)

\* C10: every analyzeText request that has arrived is eventually answered,
\* with success or failure, also when an inference or the model load never
\* settles.
BoundedResponse == \A r \in Requests : Issued(r) ~> Answered(r)

\* the positions of r's text whose classifier call resolved, and the results
\* built for them taken in the order of the text
ResolvedAt(r) == {settled[r][j].pos : j \in {n \in DOMAIN settled[r] : settled[r][n].ok}}

InTextOrder(r) ==
  LET sentences == Sentences(req[r].text)
      IsResolved(p) == p \in ResolvedAt(r)
      kept == SelectSeq([p \in DOMAIN sentences |-> p], IsResolved)
  IN [j \in 1..Len(kept) |-> ResultFor(sentences[kept[j]])]

\* C11: the list a successful analyzeText request is answered with holds the
\* results in the order of their sentences in the text, whatever the order in
\* which the classifier calls of a batch settled.
ResultsInSentenceOrder ==
  \A r \in Requests : Succeeded(r) => req[r].resp.result = InTextOrder(r)

\* a later sentence's call settled before an earlier one's
SettledOutOfOrder(r) ==
  \E a, b \in DOMAIN settled[r] :
     a < b /\ settled[r][a].pos > settled[r][b].pos
           /\ settled[r][a].ok /\ settled[r][b].ok

ResultsInSentenceOrderWitness ==
  \E r \in Requests :
     Succeeded(r) /\ SettledOutOfOrder(r) /\ Len(req[r].resp.result) > batchSize

\* the classifier calls of r that have not settled
Outstanding(r) == invocations[r] - Len(settled[r])

\* the positions of r's text that were handed to the classifier in a batch
\* before the current one
EarlierCalls(r) ==
  {p \in 1..req[r].i : Len(trim(Sentences(req[r].text)[p])) >= MinSentenceLen}

\* C20: a request never has more than five classifier calls outstanding, and
\* while a batch is in progress every call of the batches before it has
\* settled.
BatchedInference ==
  \A r \in Requests :
     /\ Outstanding(r) <= batchSize
     /\ req[r].pc = "batch" =>
           EarlierCalls(r) \subseteq {settled[r][j].pos : j \in DOMAIN settled[r]}

BatchedInferenceWitness ==
  \E r \in Requests :
     /\ req[r].pc = "batch"
     /\ req[r].i = batchSize
     /\ Cardinality(EarlierCalls(r)) = batchSize
     /\ Outstanding(r) > 0

\* the level the popup's legend gives a probability: High (>70%),
\* Medium (40-70%), Low (<40%)
LegendLevel(p) ==
  IF p > HighThreshold THEN "high"
  ELSE IF p >= MediumThreshold THEN "medium" ELSE "low"

\* C14: a probability above 70% gets the level high, one from 40% to 70%,
\* both bounds included, the level medium, and one below 40% the level low.
ConfidenceLevels ==
  sample.level # "none" => sample.level = LegendLevel(sample.probability)

\* C12: no POST to /api/feedback is made while fewer than 10 items are stored
\* locally, and every POST carries exactly 10 items.
FeedbackBatching ==
  \A j \in DOMAIN posts :
     /\ posts[j].stored >= FeedbackThreshold
     /\ Len(posts[j].feedback) = FeedbackThreshold

\* what a request to the backend may carry as the url of an item
Hostnames == {hostname(url) : url \in {u \in Urls : SchemeEnd(u) # 0}}

\* C13: every item of every POST carries as url the hostname of the page, or
\* 'unknown', never the page's full URL.
PrivacyOfFeedback ==
  \A j \in DOMAIN posts : \A k \in DOMAIN posts[j].feedback :
     posts[j].feedback[k].url \in Hostnames \cup {unknown}

ReceivedPosts == {j \in DOMAIN posts : posts[j].delivered}

ReceivedItems == UNION {Range(posts[j].feedback) : j \in ReceivedPosts}

RECURSIVE ReceivedCount(_)
ReceivedCount(j) ==
  IF j = 0 THEN 0
  ELSE ReceivedCount(j - 1) + (IF posts[j].delivered THEN Len(posts[j].feedback) ELSE 0)

\* C17: the backend stores every item of every batch it received, with the
\* item's fields, and the number of its records has grown by the number of
\* items of each batch.
BackendStoresBatch ==
  /\ Len(backendFeedback) = ReceivedCount(Len(posts))
  /\ ReceivedItems \subseteq Range(backendFeedback)

\* the popup has dealt with the answer to its last getModelStatus
StatusHandled == popup.pc \in {"timer", "settled"} /\ popup.response # NoResponse

\* C16: when the popup's getModelStatus reached the service worker after the
\* model had loaded, the popup, once it has dealt with the answer, shows
\* 'Model ready' and its button is enabled.
ModelReadyFlow ==
  (StatusHandled /\ popup.asked = [loaded |-> TRUE, promise |-> "fulfilled"]) =>
     /\ popup.status = "Model ready"
     /\ popup.detectBtn = "enabled"

\* C18: when a getModelStatus that passed the sender check reached the
\* service worker after the load had failed, it is answered with loaded =
\* false and loading = false, and the popup shows 'Model failed to load' and
\* has no timer pending.
FailedLoadReported ==
  (StatusHandled /\ popup.response.success
     /\ popup.asked = [loaded |-> FALSE, promise |-> "rejected"]) =>
     /\ ~popup.response.loaded
     /\ ~popup.response.loading
     /\ popup.status = "Model failed to load"
     /\ popup.pc = "settled"

CountIsExact ==
  /\ Len(backendFeedback) = api.posts
  /\ api.response.route \in {"POST /api/feedback", "GET /api/feedback"} =>
        api.response.json.count = api.posts

\* a step keeps every record where it is and as it is, and only a POST adds one
StoreOnlyGrows ==
  /\ SubSeq(backendFeedback', 1, Len(backendFeedback)) = backendFeedback
  /\ api'.posts = api.posts => backendFeedback' = backendFeedback

\* C21: the count returned by POST /api/feedback and by GET /api/feedback is
\* the number of POST requests handled so far, no stored record is ever
\* removed or altered, and the GET routes leave the store as it is.
AppendOnlyStore == [][StoreOnlyGrows]_vars /\ []CountIsExact

AppendOnlyStoreWitness ==
  /\ api.posts > 1
  /\ api.response.route = "GET /api/feedback"
  /\ api.response.json.count = api.posts
  /\ \E k \in DOMAIN backendFeedback : backendFeedback[k].feedback # <<>>

\* the callers of initializeModel that wait for its promise
AwaitingModel == {r \in Requests : req[r].pc = "awaitModel"}

\* C22: however onInstalled, onStartup and analyzeText interleave, the
\* loader's body is started at most once in the life of the service worker,
\* exactly when the one promise is created, and every caller that waits for
\* the model waits for that promise.
SingleFlightLoad ==
  /\ loads <= 1
  /\ loads = 1 <=> modelLoadingPromise # "null"
  /\ loadPc = "none" <=> modelLoadingPromise = "null"
  /\ AwaitingModel # {} => modelLoadingPromise # "null"

SingleFlightLoadWitness ==
  /\ fired = {"installed", "startup"}
  /\ Cardinality(AwaitingModel) > 1
  /\ loadPc = "pipeline"
  /\ loads = 1

\* C23: an analyzeText request that arrives after the load was rejected
\* starts a new load attempt.
FailedLoadRetried ==
  [][\A r \in Requests :
       (/\ modelLoadingPromise = "rejected"
        /\ req[r].pc = "idle"
        /\ req'[r].pc = "awaitModel") => loads' = loads + 1]_vars

====
